---- MODULE Spec2Model ----
(***************************************************************************)
(* State-machine model of the nuki_events integration: the webhook view    *)
(* (webhook.py), the coordinator's reducer and periodic refresh            *)
(* (coordinator.py) and the registry written by async_setup_entry          *)
(* (__init__.py).                                                          *)
(***************************************************************************)
EXTENDS Integers, Sequences, FiniteSets, TLC

VARIABLES data, refresh_pc, registry, inflight, last, logged, kept,
          refresh_raised, entry, vendor, flow, stored

vars == <<data, refresh_pc, registry, inflight, last, logged, kept,
          refresh_raised, entry, vendor, flow, stored>>

(***************************************************************************)
(* Bounds of the model.                                                    *)
(***************************************************************************)
\* event_counter values are explored up to this cap (guard of the DEVICE_LOGS branch)
MaxCount == 2
\* number of hex characters of the modelled digest
HexLen == 2

(***************************************************************************)
(* JSON / Python values.  A value is a record with a type tag; ints and    *)
(* strings are kept apart so that str(7) and "7" can be told from 7.       *)
(***************************************************************************)
None == [t |-> "none", i |-> 0, s |-> ""]
VInt(n) == [t |-> "int", i |-> n, s |-> ""]
VStr(x) == [t |-> "str", i |-> 0, s |-> x]

\* Python truthiness of a JSON scalar: None, 0 and "" are falsy
Truthy(v) == CASE v.t = "none" -> FALSE
               [] v.t = "int" -> v.i # 0
               [] OTHER -> v.s # ""

\* `a or b`
PyOr(a, b) == IF Truthy(a) THEN a ELSE b

Digit(d) == CASE d = 0 -> "0" [] d = 1 -> "1" [] d = 2 -> "2" [] d = 3 -> "3"
              [] d = 4 -> "4" [] d = 5 -> "5" [] d = 6 -> "6" [] d = 7 -> "7"
              [] d = 8 -> "8" [] OTHER -> "9"

\* decimal rendering of a non-negative int, as str(int) produces it
RECURSIVE IntStr(_)
IntStr(n) == IF n < 10 THEN Digit(n) ELSE IntStr(n \div 10) \o Digit(n % 10)

\* str(v) for a JSON scalar
PyStr(v) == IF v.t = "int" THEN IntStr(v.i) ELSE v.s

\* the decimal numerals int() can parse back in the model
Numerals == [n \in 0 .. 255 |-> IntStr(n)]
NumeralSet == {Numerals[n] : n \in DOMAIN Numerals}

\* does int(v) succeed?  (ints always; strings only when they are decimal numerals)
IntOk(v) == \/ v.t = "int"
            \/ v.t = "str" /\ v.s \in NumeralSet

\* the result of int(v) when it succeeds
IntOf(v) == IF v.t = "int" THEN v.i ELSE CHOOSE n \in DOMAIN Numerals : Numerals[n] = v.s

(***************************************************************************)
(* Enum tables of coordinator.py.                                          *)
(***************************************************************************)
TRIGGER_LABEL ==
  (0 :> "System (Bluetooth)") @@ (1 :> "Manual") @@ (2 :> "Button") @@
  (3 :> "Automatic") @@ (4 :> "Web") @@ (5 :> "App") @@ (6 :> "Auto lock") @@
  (7 :> "Accessory") @@ (255 :> "Keypad")

ACTION_LABEL ==
  (1 :> "unlock") @@ (2 :> "lock") @@ (3 :> "unlatch") @@ (4 :> "lock_n_go") @@
  (5 :> "lock_n_go_unlatch") @@ (208 :> "door_sensor_jammed") @@
  (209 :> "door_sensor_error") @@ (224 :> "keypad_battery_critical") @@
  (225 :> "keypad_battery_low") @@ (226 :> "keypad_battery_ok") @@
  (240 :> "door_opened") @@ (241 :> "door_closed") @@ (243 :> "firmware_update") @@
  (252 :> "initialization") @@ (253 :> "calibration") @@ (254 :> "log_enabled") @@
  (255 :> "log_disabled")

COMPLETION_STATE_LABEL ==
  (0 :> "success") @@ (1 :> "motor_blocked") @@ (2 :> "canceled") @@
  (3 :> "too_recent") @@ (4 :> "busy") @@ (5 :> "low_motor_voltage") @@
  (6 :> "clutch_failure") @@ (7 :> "motor_power_failure") @@ (8 :> "incomplete") @@
  (9 :> "other_error") @@ (10 :> "rejected_night_mode") @@ (254 :> "other_error") @@
  (255 :> "unknown_error")

SOURCE_LABEL == (0 :> "default") @@ (1 :> "keypad_code") @@ (2 :> "fingerprint")

\* to_int: int(v) for a value that is not None and that int() accepts, else None
to_int(v) == IF v.t # "none" /\ IntOk(v) THEN VInt(IntOf(v)) ELSE None

\* TABLE.get(to_int(raw), raw): the table's label, or the raw value itself
LabelOrRaw(table, raw) ==
  LET k == to_int(raw)
  IN IF k.t = "int" /\ k.i \in DOMAIN table THEN VStr(table[k.i]) ELSE raw

(***************************************************************************)
(* Webhook payloads (the JSON the vendor posts).  A key that is absent     *)
(* and a key whose value is null both read as None through dict.get.       *)
(***************************************************************************)
WEBHOOK_FEATURE_DEVICE_STATUS == "DEVICE_STATUS"
WEBHOOK_FEATURE_DEVICE_LOGS == "DEVICE_LOGS"
WEBHOOK_FEATURE_DEVICE_AUTHS == "DEVICE_AUTHS"

\* the two event types fired on the bus
EVENT_NUKI_WEBHOOK == "nuki_events_webhook"
EVENT_NUKI_LOCK_EVENT == "nuki_events_lock_event"

\* smartlockLog with no key set (also the `or {}` default of an absent object)
NoLog == [obj |-> TRUE, smartlockId |-> None, smartlock_id |-> None, action |-> None,
          trigger |-> None, state |-> None, source |-> None, deviceType |-> None,
          date |-> None, authId |-> None, name |-> None]

\* smartlockAuth with no key set
NoAuth == [authId |-> None, name |-> None]

\* raw values tried for every enum-coded field: a code the table knows, a
\* code no table knows, and a string int() rejects
EnumRaw == {VInt(1), VInt(99), VStr("x")}

\* the optional fields of a log entry and the raw values tried for each
LogFieldValues ==
  [action |-> EnumRaw, trigger |-> EnumRaw, state |-> EnumRaw, source |-> EnumRaw,
   deviceType |-> {VInt(4)}, date |-> {VStr("2024-01-01T00:00:00Z")},
   authId |-> {VStr("7"), VInt(7)}, name |-> {VStr("Alice")}]

LogFields == DOMAIN LogFieldValues

\* log entries that carry exactly one optional field
OneFieldLogs ==
  { [NoLog EXCEPT ![f] = v] : <<f, v>> \in
      UNION { {<<f, v>> : v \in LogFieldValues[f]} : f \in LogFields } }

\* the log entries of the specification's end-to-end scenarios 1 and 2
ScenarioLog1 == [NoLog EXCEPT !.action = VInt(1), !.trigger = VInt(6),
                              !.authId = VStr("7"), !.name = VStr("Alice")]
ScenarioLog2 == [ScenarioLog1 EXCEPT !.name = None]

LogSamples == {NoLog, ScenarioLog1, ScenarioLog2} \cup OneFieldLogs

\* log entries sent under every shape of device id
ProbeLogs == {ScenarioLog1}

\* <<smartlockLog.smartlockId, top-level smartlockId>> shapes
IdShapes == { <<VInt(1), None>>, <<VInt(2), None>>, <<None, None>>,
              <<VStr("abc"), None>>, <<None, VStr("abc")>>, <<None, VInt(1)>>,
              <<VInt(0), VInt(2)>>, <<VInt(1), VInt(2)>>, <<VStr("2"), None>> }

\* a JSON object with the keys the handler reads, and the snake-case key
\* smartlock_id, which it does not read
Payload(feature, topId, log, auth, deleted) ==
  [json |-> "object", feature |-> feature, smartlockId |-> topId, smartlock_id |-> None,
   smartlockLog |-> log, smartlockAuth |-> auth, deleted |-> deleted]

LogPayloads ==
  { Payload(WEBHOOK_FEATURE_DEVICE_LOGS, None, [l EXCEPT !.smartlockId = VInt(1)], NoAuth, FALSE)
      : l \in LogSamples }
  \cup
  { Payload(WEBHOOK_FEATURE_DEVICE_LOGS, ids[2], [l EXCEPT !.smartlockId = ids[1]], NoAuth, FALSE)
      : ids \in IdShapes, l \in ProbeLogs }
  \cup
  \* smartlockLog is truthy but not a JSON object
  { Payload(WEBHOOK_FEATURE_DEVICE_LOGS, VInt(1), [NoLog EXCEPT !.obj = FALSE], NoAuth, FALSE) }

AuthPayloads ==
  { Payload(WEBHOOK_FEATURE_DEVICE_AUTHS, topId, NoLog, [authId |-> a, name |-> n], del)
      : topId \in {None, VInt(1)}, a \in {None, VInt(7)},
        n \in {None, VStr("Bob")}, del \in BOOLEAN }

OtherPayloads ==
  { Payload(f, topId, NoLog, NoAuth, FALSE)
      : f \in {WEBHOOK_FEATURE_DEVICE_STATUS, "DEVICE_CONFIG", ""}, topId \in {None, VInt(1)} }

Payloads == LogPayloads \cup AuthPayloads \cup OtherPayloads

\* payloads of the end-to-end scenarios that are not among the above: the log
\* entry of scenario 1 for device 42 and the auth of a second user
ScenarioPayloads ==
  { Payload(WEBHOOK_FEATURE_DEVICE_LOGS, None, [ScenarioLog1 EXCEPT !.smartlockId = VInt(42)],
            NoAuth, FALSE),
    Payload(WEBHOOK_FEATURE_DEVICE_AUTHS, None, NoLog,
            [authId |-> VInt(8), name |-> VStr("Carol")], FALSE) }

\* the log entry of scenario 1 with the device id under the snake-case key
\* only, inside the log entry and at the top level
SnakeCasePayloads ==
  { Payload(WEBHOOK_FEATURE_DEVICE_LOGS, None, [ScenarioLog1 EXCEPT !.smartlock_id = VInt(1)],
            NoAuth, FALSE),
    [Payload(WEBHOOK_FEATURE_DEVICE_LOGS, None, ScenarioLog1, NoAuth, FALSE)
       EXCEPT !.smartlock_id = VInt(1)] }

(***************************************************************************)
(* The coordinator's data (self.data) and the reducer.                     *)
(***************************************************************************)
\* an empty dict
EmptyMap == [k \in {} |-> None]

\* m[k] = v on a dict
\* (mutant: a key that is present keeps its value)
PutMutKeepsOld(m, k, v) == [x \in (DOMAIN m) \cup {k} |-> IF x \in DOMAIN m THEN m[x] ELSE v]
Put(m, k, v) == [x \in (DOMAIN m) \cup {k} |-> IF x = k THEN v ELSE m[x]]

\* m.pop(k, None) on a dict
Pop(m, k) == [x \in (DOMAIN m) \ {k} |-> m[x]]

\* the dict async_handle_webhook falls back to, and what the first refresh returns
FreshData(locks) ==
  [locks |-> locks, auth_map |-> EmptyMap, last_actor |-> EmptyMap,
   last_auth_id |-> EmptyMap, last_action |-> EmptyMap, last_trigger |-> EmptyMap,
   last_date |-> EmptyMap, last_completion_state |-> EmptyMap, last_source |-> EmptyMap,
   last_device_type |-> EmptyMap, event_counter |-> EmptyMap]

\* event_counter.get(smartlock_id, 0)
CounterOf(current, smartlock_id) ==
  IF smartlock_id \in DOMAIN current.event_counter
  THEN current.event_counter[smartlock_id] ELSE 0

\* _bump_counter: the store with the device's counter raised by one
\* (mutant: a counter that is present is not raised again)
BumpMutIdempotent(current, smartlock_id) ==
  [current EXCEPT !.event_counter =
     Put(@, smartlock_id, IF smartlock_id \in DOMAIN @ THEN @[smartlock_id] ELSE 1)]
_bump_counter(current, smartlock_id) ==
  [current EXCEPT !.event_counter = Put(@, smartlock_id, CounterOf(current, smartlock_id) + 1)]

\* log.get("smartlockId") or payload.get("smartlockId")
\* (mutant: a missing id defaults to 0 instead of None)
SmartlockIdMutDefaultZero(payload) ==
  PyOr(PyOr(payload.smartlockLog.smartlockId, payload.smartlockId), VInt(0))
smartlock_id_val(payload) == PyOr(payload.smartlockLog.smartlockId, payload.smartlockId)

\* the actor of a log entry: its name, else the directory's name for its auth id,
\* else the trigger's label, else "Unknown"
Actor(log, auth_map) ==
  LET auth_id_str == IF log.authId.t # "none" THEN PyStr(log.authId) ELSE ""
      trig_i == to_int(log.trigger)
  IN IF Truthy(log.name) THEN VStr(PyStr(log.name))
     ELSE IF auth_id_str # "" /\ auth_id_str \in DOMAIN auth_map THEN VStr(auth_map[auth_id_str])
     ELSE IF trig_i.t = "int" /\ trig_i.i \in DOMAIN TRIGGER_LABEL
          THEN VStr(TRIGGER_LABEL[trig_i.i])
          ELSE VStr("Unknown")

\* the eight attribute writes of the DEVICE_LOGS branch
\* (mutant: the actor is written to every device that has one)
WriteLogMutActorOfAll(current, smartlock_id, log) ==
  [current EXCEPT
     !.last_actor = [d \in (DOMAIN @) \cup {smartlock_id} |-> Actor(log, current.auth_map)],
     !.last_auth_id = Put(@, smartlock_id,
                          IF log.authId.t # "none" THEN VStr(PyStr(log.authId)) ELSE None),
     !.last_action = Put(@, smartlock_id, LabelOrRaw(ACTION_LABEL, log.action)),
     !.last_trigger = Put(@, smartlock_id, LabelOrRaw(TRIGGER_LABEL, log.trigger)),
     !.last_completion_state = Put(@, smartlock_id, LabelOrRaw(COMPLETION_STATE_LABEL, log.state)),
     !.last_source = Put(@, smartlock_id, LabelOrRaw(SOURCE_LABEL, log.source)),
     !.last_device_type = Put(@, smartlock_id, log.deviceType),
     !.last_date = Put(@, smartlock_id, log.date)]
WriteLog(current, smartlock_id, log) ==
  [current EXCEPT
     !.last_actor = Put(@, smartlock_id, Actor(log, current.auth_map)),
     !.last_auth_id = Put(@, smartlock_id,
                          IF log.authId.t # "none" THEN VStr(PyStr(log.authId)) ELSE None),
     !.last_action = Put(@, smartlock_id, LabelOrRaw(ACTION_LABEL, log.action)),
     !.last_trigger = Put(@, smartlock_id, LabelOrRaw(TRIGGER_LABEL, log.trigger)),
     !.last_completion_state = Put(@, smartlock_id, LabelOrRaw(COMPLETION_STATE_LABEL, log.state)),
     !.last_source = Put(@, smartlock_id, LabelOrRaw(SOURCE_LABEL, log.source)),
     !.last_device_type = Put(@, smartlock_id, log.deviceType),
     !.last_date = Put(@, smartlock_id, log.date)]

\* the directory update of the DEVICE_AUTHS branch
\* (mutant: a deletion leaves the entry in the directory)
UpdateAuthMapMutKeepsDeleted(auth_map, auth, deleted) ==
  IF auth.authId.t = "none" \/ deleted THEN auth_map
  ELSE IF Truthy(auth.name) THEN Put(auth_map, PyStr(auth.authId), PyStr(auth.name))
  ELSE auth_map
UpdateAuthMap(auth_map, auth, deleted) ==
  IF auth.authId.t = "none" THEN auth_map
  ELSE IF deleted THEN Pop(auth_map, PyStr(auth.authId))
  ELSE IF Truthy(auth.name) THEN Put(auth_map, PyStr(auth.authId), PyStr(auth.name))
  ELSE auth_map

\* the DEVICE_AUTHS branch: the directory is updated, one lock event is fired
\* and the store is published
\* (mutant: the branch also records the auth's name as the actor of device 1)
HandleAuthsMutWritesActor(current, payload) ==
  [data |-> [current EXCEPT
               !.auth_map = UpdateAuthMap(@, payload.smartlockAuth, payload.deleted),
               !.last_actor = Put(@, 1, payload.smartlockAuth.name)],
   how |-> "published", dev |-> -1,
   fired |-> <<EVENT_NUKI_WEBHOOK, EVENT_NUKI_LOCK_EVENT>>]
HandleAuths(current, payload) ==
  [data |-> [current EXCEPT !.auth_map =
               UpdateAuthMap(@, payload.smartlockAuth, payload.deleted)],
   how |-> "published", dev |-> -1,
   fired |-> <<EVENT_NUKI_WEBHOOK, EVENT_NUKI_LOCK_EVENT>>]

\* What one call of async_handle_webhook does to the store and how it ends:
\*   "published"  async_set_updated_data(current) was called,
\*   "refresh"    async_request_refresh() was awaited,
\*   "raised"     an exception left the coroutine.
\* dev is the coerced smartlock id of an applied DEVICE_LOGS event, else -1;
\* fired is the sequence of event types fired on the bus.
Handle(current, payload) ==
  IF payload.json # "object"
  THEN \* payload.get on a list: AttributeError
       [data |-> current, how |-> "raised", dev |-> -1, fired |-> <<EVENT_NUKI_WEBHOOK>>]
  ELSE IF payload.feature = WEBHOOK_FEATURE_DEVICE_AUTHS
  THEN HandleAuths(current, payload)
  ELSE IF payload.feature = WEBHOOK_FEATURE_DEVICE_STATUS
  THEN [data |-> current, how |-> "published", dev |-> -1,
        fired |-> <<EVENT_NUKI_WEBHOOK, EVENT_NUKI_LOCK_EVENT>>]
  ELSE IF payload.feature = WEBHOOK_FEATURE_DEVICE_LOGS
  THEN IF ~payload.smartlockLog.obj
       THEN \* log.get on a non-dict: AttributeError
            [data |-> current, how |-> "raised", dev |-> -1, fired |-> <<EVENT_NUKI_WEBHOOK>>]
       ELSE IF smartlock_id_val(payload).t = "none"
       THEN [data |-> current, how |-> "refresh", dev |-> -1, fired |-> <<EVENT_NUKI_WEBHOOK>>]
       ELSE IF ~IntOk(smartlock_id_val(payload))
       THEN \* int(smartlock_id_val): ValueError
            [data |-> current, how |-> "raised", dev |-> -1, fired |-> <<EVENT_NUKI_WEBHOOK>>]
       ELSE LET smartlock_id == IntOf(smartlock_id_val(payload))
            IN [data |-> _bump_counter(WriteLog(current, smartlock_id, payload.smartlockLog),
                                       smartlock_id),
                how |-> "published", dev |-> smartlock_id,
                fired |-> <<EVENT_NUKI_WEBHOOK, EVENT_NUKI_LOCK_EVENT>>]
  ELSE [data |-> current, how |-> "refresh", dev |-> -1, fired |-> <<EVENT_NUKI_WEBHOOK>>]

\* the auth directory after the inner try of _async_update_data: the call of
\* get_all_auths raises (AttributeError), the except clause logs it, and the
\* directory stays as it was
\* (mutant: the failed listing empties the directory)
AuthsAfterListingMutCleared(auth_map) == EmptyMap
AuthsAfterListing(auth_map) == auth_map

\* _async_update_data when list_smartlocks succeeded: a new dict that keeps the
\* prior maps.  NukiApi defines no get_all_auths, so the inner try always ends in
\* its except clause and auth_map is the prior one.
\* (mutant: the refresh returns fresh maps instead of the prior ones)
UpdateMutReset(prior, locks) == FreshData(locks)
\* (mutant: the refresh hands on the directory and the counters only)
UpdateMutFreshAttributes(prior, locks) ==
  [FreshData(locks) EXCEPT !.auth_map = prior.auth_map, !.event_counter = prior.event_counter]
_async_update_data(prior, locks) ==
  [prior EXCEPT !.locks = locks, !.auth_map = AuthsAfterListing(@)]

(***************************************************************************)
(* The webhook view: registry lookup, signature check, JSON decoding.      *)
(***************************************************************************)
DOMAIN_ENTRY == "entry-1"

\* path segments tried as {entry_id}
Paths == {DOMAIN_ENTRY, "_view_registered", "unknown-entry"}

\* the secret async_setup_entry may have stored, and another one
SECRET == "s3cr3t"
OTHER_SECRET == "0th3r"

\* request bodies: bytes that are no JSON, a JSON array, and the JSON objects
InvalidJson == [Payload("", None, NoLog, NoAuth, FALSE) EXCEPT !.json = "invalid"]
JsonArray == [Payload("", None, NoLog, NoAuth, FALSE) EXCEPT !.json = "array"]
Bodies == {InvalidJson, JsonArray} \cup Payloads \cup ScenarioPayloads \cup SnakeCasePayloads

RECURSIVE SetToSeq(_)
SetToSeq(S) == IF S = {} THEN <<>>
               ELSE LET x == CHOOSE x \in S : TRUE IN <<x>> \o SetToSeq(S \ {x})

\* the bodies in a fixed order: a body's position stands for its raw bytes
BodySeq == SetToSeq(Bodies)
RawBodies == 1 .. Len(BodySeq)

\* json.loads(body.decode("utf-8")); the result is tagged "invalid" when it raises
json_loads(body) == BodySeq[body]

HexDigits == <<"0", "1", "2", "3", "4", "5", "6", "7", "8", "9", "a", "b", "c", "d", "e", "f">>

RECURSIVE Pow16(_)
Pow16(k) == IF k = 0 THEN 1 ELSE 16 * Pow16(k - 1)

\* n as HexLen lower-case hex characters
RECURSIVE HexOf(_, _)
HexOf(n, k) == IF k = 0 THEN <<>> ELSE HexOf(n \div 16, k - 1) \o <<HexDigits[(n % 16) + 1]>>

\* _hmac_sha256_hex: a lower-case hex digest that is a function of the secret and
\* of the raw body.  SHA-256 itself is replaced by an injective mixing of the
\* two; the digest is HexLen characters long instead of 64.
_hmac_sha256_hex(secret, body) ==
  HexOf(((2 * body + (IF secret = SECRET THEN 0 ELSE 1)) * 157) % Pow16(HexLen), HexLen)

LowerChar(c) == CASE c = "A" -> "a" [] c = "B" -> "b" [] c = "C" -> "c"
                  [] c = "D" -> "d" [] c = "E" -> "e" [] c = "F" -> "f" [] OTHER -> c
UpperChar(c) == CASE c = "a" -> "A" [] c = "b" -> "B" [] c = "c" -> "C"
                  [] c = "d" -> "D" [] c = "e" -> "E" [] c = "f" -> "F" [] OTHER -> c

\* str.lower() / str.upper() on a hex string
Lower(str) == [i \in DOMAIN str |-> LowerChar(str[i])]
Upper(str) == [i \in DOMAIN str |-> UpperChar(str[i])]

\* not signature or not hmac.compare_digest(signature.lower(), expected.lower())
\* (mutant: the `not signature` test is dropped and an empty header is let through)
BadSigMutEmptyOk(signature, expected) == signature # <<>> /\ Lower(signature) # Lower(expected)
BadSignature(signature, expected) == signature = <<>> \/ Lower(signature) # Lower(expected)

\* a character outside ASCII (e with acute accent), as a header may carry it
NonAsciiChar == "U+00E9"

\* hmac.compare_digest raises TypeError for a str with a non-ASCII character;
\* `not signature or ...` does not reach it for an empty header
CompareRaises(signature) ==
  signature # <<>> /\ \E i \in DOMAIN signature : signature[i] = NonAsciiChar

\* characters put in place of one character of the digest
ProbeChars == {"0", "7", "a", "A", "c", "C", "f", "F", NonAsciiChar}

\* signature headers tried against a body: none, the digest in both cases, the
\* digest with one character replaced, and the digest under another secret
Signatures(body) ==
  LET e == _hmac_sha256_hex(SECRET, body)
  IN {<<>>, e, Upper(e), _hmac_sha256_hex(OTHER_SECRET, body)}
     \cup { [e EXCEPT ![i] = c] : i \in 1 .. HexLen, c \in ProbeChars }

\* bodies sent with every signature
ProbeBodies ==
  { b \in RawBodies : json_loads(b) \in
      {Payload(WEBHOOK_FEATURE_DEVICE_LOGS, None,
               [ScenarioLog1 EXCEPT !.smartlockId = VInt(1)], NoAuth, FALSE)} }

\* deliveries: every body under the right lower-case signature, the probe
\* bodies under every signature
Deliveries ==
  { [signature |-> _hmac_sha256_hex(SECRET, b), body |-> b] :
      b \in {x \in RawBodies : json_loads(x) \in {InvalidJson, JsonArray} \cup Payloads} }
  \cup UNION { {[signature |-> sg, body |-> b] : sg \in Signatures(b)} : b \in ProbeBodies }

\* the bodies of the signature and status checks: one of each kind of outcome
HttpBodies ==
  { b \in RawBodies : json_loads(b) \in
      { InvalidJson, JsonArray,
        Payload(WEBHOOK_FEATURE_DEVICE_LOGS, None,
                [ScenarioLog1 EXCEPT !.smartlockId = VInt(1)], NoAuth, FALSE),
        Payload(WEBHOOK_FEATURE_DEVICE_LOGS, None, ScenarioLog1, NoAuth, FALSE),
        Payload(WEBHOOK_FEATURE_DEVICE_LOGS, None,
                [NoLog EXCEPT !.smartlockId = VInt(1), !.action = VInt(99)], NoAuth, FALSE),
        Payload(WEBHOOK_FEATURE_DEVICE_LOGS, None,
                [NoLog EXCEPT !.smartlockId = VInt(1), !.trigger = VStr("x")], NoAuth, FALSE),
        Payload(WEBHOOK_FEATURE_DEVICE_LOGS, None,
                [ScenarioLog1 EXCEPT !.smartlockId = VStr("abc")], NoAuth, FALSE),
        Payload(WEBHOOK_FEATURE_DEVICE_AUTHS, None, NoLog,
                [authId |-> VInt(7), name |-> VStr("Bob")], FALSE),
        Payload(WEBHOOK_FEATURE_DEVICE_STATUS, VInt(1), NoLog, NoAuth, FALSE),
        Payload("DEVICE_CONFIG", VInt(1), NoLog, NoAuth, FALSE) } }

\* these bodies under every signature
HttpDeliveries ==
  UNION { {[signature |-> sg, body |-> b] : sg \in Signatures(b)} : b \in HttpBodies }

\* what list_smartlocks may answer
LockLists == {<<>>, <<1, 2>>}

NoRequest == [entry_id |-> "", secret |-> ""]
\* in_refresh: a refresh was suspended in list_smartlocks when the handler ran;
\* counter: the value _bump_counter returned (0 when it was not called)
NoResponse == [status |-> 0, how |-> "none", feature |-> "", has_id |-> FALSE, dev |-> -1,
               fired |-> <<>>, in_refresh |-> FALSE, counter |-> 0]
NoPayload == [json |-> "nothing"]
\* deleted_auths: the auth ids whose directory entry a logged DEVICE_AUTHS
\* deletion removed and no later DEVICE_AUTHS payload set again;
\* prev: the payload line of the request before this one, where the log is kept
NothingLogged == [entry_id |-> "", signature |-> <<>>, body |-> 0, payload |-> NoPayload,
                  deleted_auths |-> {}, prev |-> NoPayload]

\* a reference to coordinator.data held by a listener: the content it had when
\* the listener took it (copy) and the content the same object has now
NoSnapshot == [held |-> FALSE, copy |-> FreshData(<<>>), now |-> FreshData(<<>>)]

\* The handler writes into the dicts of self.data (current is self.data, and
\* _async_update_data hands the same inner dicts on), so a held object follows
\* every write; only its "locks" entry stays, as a refresh builds a new outer dict.
InPlace(k, d) == IF k.held THEN [k EXCEPT !.now = [d EXCEPT !.locks = k.now.locks]] ELSE k

\* does the payload carry, nested or at the top level, an id int() accepts?
CarriesCoercibleId(payload) ==
  \E v \in {payload.smartlockLog.smartlockId, payload.smartlockId} :
    v.t # "none" /\ IntOk(v)

\* the id the vendor gives the webhook it registers
WEBHOOK_ID == 1

(***************************************************************************)
(* The config flow (config_flow.py).                                       *)
(***************************************************************************)
\* the flow id Home Assistant gave the flow, used as the OAuth state
FLOW_ID == "flow-1"

\* a token as the flow stores it: expires_in is what the endpoint sent (None
\* when absent), expires_after is expires_at relative to the time of the exchange
Token(expires_in, expires_after) ==
  [access_token |-> "at", expires_in |-> expires_in, expires_after |-> expires_after]

\* the data of the installation's config entry that the flow writes; how is
\* "none" when there is no entry, else the call that wrote it last
NoEntry == [how |-> "none", client_id |-> "", client_secret |-> "", token |-> Token(None, 0)]
ExistingEntry == [how |-> "create_entry", client_id |-> "old-id", client_secret |-> "old-secret",
                  token |-> Token(VInt(3600), 3540)]

\* no callback has reached the flow
NoCallback == [state |-> None, code |-> None, error |-> None]

\* no flow in progress.  step is the step the flow manager will call next
\* ("user", "authorize"), "exchange" while the token request is awaited, "none"
\* when no flow is in progress; client_id, client_secret and oauth_redirect_uri
\* are the entries of self.context (None while absent); sent tells whether the
\* flow sent a token request; status is the status of the last token response;
\* result is what the last step returned or "raised"
NoFlow == [step |-> "none", reauth |-> FALSE, client_id |-> None, client_secret |-> None,
           oauth_redirect_uri |-> None, callback |-> NoCallback, sent |-> FALSE,
           status |-> 0, result |-> "none"]

\* hass.data[DOMAIN]["_view_registered"] = True
ViewFlag == "_view_registered" :> [flag |-> TRUE, webhook_secret |-> None, webhook_id |-> None]

\* hass.data[DOMAIN][entry.entry_id] (the coordinator is the variable data)
RegistryEntry(webhook_id, webhook_secret) ==
  [flag |-> FALSE, webhook_secret |-> webhook_secret, webhook_id |-> webhook_id]

\* what an API call of a refresh may raise: the reauth condition of _auth_headers
\* and of a 401/403 answer, or another error (an HTTP error status, a timeout)
ApiErrors == {"ConfigEntryAuthFailed", "ClientResponseError"}

\* no failure reached the host from the latest refresh
NoException == [type |-> "none", cause |-> "none"]

\* except Exception as err: raise UpdateFailed(str(err)) from err
UpdateFailedFrom(err) == [type |-> "UpdateFailed", cause |-> err]

\* hass.data[DOMAIN] once async_setup_entry has returned: the view flag and the
\* entry, whose webhook_secret is None when the registration did not succeed
Init ==
  /\ \E locks \in LockLists : data = FreshData(locks)
  /\ refresh_pc = "idle"
  /\ \E secret \in {None, VStr(SECRET)} :
       LET id == IF secret = None THEN None ELSE VInt(WEBHOOK_ID)
       IN /\ registry = ViewFlag @@ (DOMAIN_ENTRY :> RegistryEntry(id, secret))
          /\ entry = [phase |-> "loaded", webhook_id |-> id, webhook_secret |-> secret,
                      log |-> IF secret = None THEN "raised" ELSE "existing"]
          /\ vendor = IF secret = None THEN {} ELSE {WEBHOOK_ID}
  /\ refresh_raised = NoException
  /\ inflight = NoRequest
  /\ last = NoResponse
  /\ logged = NothingLogged
  /\ kept = NoSnapshot
  /\ flow = NoFlow
  /\ stored = ExistingEntry

\* the response of the view and, when the reducer ran, how it ended
Reject(status) ==
  last' = [status |-> status, how |-> "rejected", feature |-> "", has_id |-> FALSE, dev |-> -1,
           fired |-> <<>>, in_refresh |-> FALSE, counter |-> 0]

\* post, up to `await request.read()`
PostBegin(entry_id) ==
  /\ inflight = NoRequest
  /\ IF entry_id \notin DOMAIN registry
     THEN Reject(404) /\ UNCHANGED inflight
     ELSE IF registry[entry_id].flag
     THEN \* data is True: data.get raises AttributeError
          Reject(500) /\ UNCHANGED inflight
     ELSE IF ~Truthy(registry[entry_id].webhook_secret)
     THEN Reject(401) /\ UNCHANGED inflight
     ELSE \* suspended in request.read(): this request has no response yet
          /\ inflight' = [entry_id |-> entry_id, secret |-> registry[entry_id].webhook_secret.s]
          /\ last' = NoResponse
  /\ UNCHANGED <<flow, stored, data, refresh_pc, registry, kept, refresh_raised, entry, vendor>>

\* await self.async_request_refresh(): starts a refresh unless one is running
RequestRefresh == refresh_pc' = "listing"

\* post, from the body read to the response
PostRead(d) ==
  /\ inflight # NoRequest
  /\ inflight' = NoRequest
  /\ UNCHANGED registry
  /\ UNCHANGED <<flow, stored, refresh_raised, entry, vendor>>
  /\ IF CompareRaises(d.signature)
     THEN \* TypeError leaves post
          Reject(500) /\ UNCHANGED <<data, refresh_pc, kept>>
     ELSE IF BadSignature(d.signature, _hmac_sha256_hex(inflight.secret, d.body))
     THEN Reject(401) /\ UNCHANGED <<data, refresh_pc, kept>>
     ELSE IF json_loads(d.body).json = "invalid"
     THEN Reject(400) /\ UNCHANGED <<data, refresh_pc, kept>>
     ELSE LET payload == json_loads(d.body)
              r == Handle(data, payload)
          IN /\ r.dev # -1 => CounterOf(data, r.dev) < MaxCount
             /\ data' = r.data
             /\ kept' = InPlace(kept, r.data)
             /\ IF r.how = "refresh" THEN RequestRefresh ELSE UNCHANGED refresh_pc
             /\ last' = [status |-> IF r.how = "raised" THEN 500 ELSE 200,
                         how |-> r.how, feature |-> payload.feature,
                         has_id |-> CarriesCoercibleId(payload), dev |-> r.dev,
                         fired |-> r.fired, in_refresh |-> refresh_pc = "listing",
                         counter |-> IF r.dev # -1 THEN CounterOf(r.data, r.dev) ELSE 0]

\* the debug log lines of post: the path segment, then the signature header and
\* the raw body, then the decoded payload once signature and JSON passed
LogBegin(entry_id) ==
  logged' = [NothingLogged EXCEPT !.entry_id = entry_id,
                                  !.deleted_auths = logged.deleted_auths]
\* the same first line, in a log that keeps the lines of the request before
LogBeginKeep(entry_id) ==
  logged' = [NothingLogged EXCEPT !.entry_id = entry_id,
                                  !.deleted_auths = logged.deleted_auths,
                                  !.prev = logged.payload]
LogRead(d) ==
  LET passed == ~ \/ CompareRaises(d.signature)
                  \/ BadSignature(d.signature, _hmac_sha256_hex(inflight.secret, d.body))
                  \/ json_loads(d.body).json = "invalid"
      payload == json_loads(d.body)
      names_auth == /\ passed /\ payload.json = "object"
                    /\ payload.feature = WEBHOOK_FEATURE_DEVICE_AUTHS
                    /\ payload.smartlockAuth.authId # None
  IN logged' = [logged EXCEPT
                  !.signature = d.signature, !.body = d.body,
                  !.payload = IF passed THEN payload ELSE NoPayload,
                  !.deleted_auths =
                     IF ~names_auth THEN @
                     ELSE IF payload.deleted
                          THEN @ \cup ({PyStr(payload.smartlockAuth.authId)}
                                         \cap DOMAIN data.auth_map)
                     ELSE IF Truthy(payload.smartlockAuth.name)
                          THEN @ \ {PyStr(payload.smartlockAuth.authId)}
                          ELSE @]

\* the update interval fires
RefreshStart ==
  /\ refresh_pc = "idle"
  /\ refresh_pc' = "listing"
  /\ UNCHANGED <<flow, stored, data, registry, inflight, last, logged, kept, refresh_raised, entry, vendor>>

\* list_smartlocks answered: the new data is published
RefreshDone(locks) ==
  /\ refresh_pc = "listing"
  /\ refresh_pc' = "idle"
  /\ data' = _async_update_data(data, locks)
  /\ refresh_raised' = NoException
  /\ UNCHANGED <<flow, stored, registry, inflight, last, logged, kept, entry, vendor>>

\* list_smartlocks raised err: _async_update_data raises UpdateFailed from it,
\* the coordinator keeps its data
RefreshFails(err) ==
  /\ refresh_pc = "listing"
  /\ refresh_pc' = "idle"
  /\ refresh_raised' = UpdateFailedFrom(err)
  /\ UNCHANGED <<flow, stored, data, registry, inflight, last, logged, kept, entry, vendor>>

RefreshFailed == \E err \in ApiErrors : RefreshFails(err)

\* The reducer under every payload; debug logging is off.
Next ==
  \/ \E entry_id \in Paths : PostBegin(entry_id) /\ UNCHANGED logged
  \/ \E d \in Deliveries : PostRead(d) /\ UNCHANGED logged
  \/ RefreshStart
  \/ \E locks \in LockLists : RefreshDone(locks)
  \/ RefreshFailed

Spec == Init /\ [][Next]_vars

\* The view under every signature; debug logging is on.
NextHttp ==
  \/ \E entry_id \in Paths : PostBegin(entry_id) /\ LogBegin(entry_id)
  \/ \E d \in HttpDeliveries : PostRead(d) /\ LogRead(d)
  \/ RefreshStart
  \/ \E locks \in LockLists : RefreshDone(locks)
  \/ RefreshFailed

SpecHttp == Init /\ [][NextHttp]_vars

\* the bodies of the end-to-end scenarios: log entries with and without a name
\* and an auth id, for devices 1 and 42, and the directory events of two users
ScenarioBodies ==
  { b \in RawBodies : json_loads(b) \in
      ScenarioPayloads \cup
      { Payload(WEBHOOK_FEATURE_DEVICE_LOGS, None, [l EXCEPT !.smartlockId = VInt(1)],
                NoAuth, FALSE)
          : l \in {NoLog, ScenarioLog1, ScenarioLog2,
                   [NoLog EXCEPT !.authId = VStr("7")], [NoLog EXCEPT !.trigger = VInt(1)]} }
      \cup
      { Payload(WEBHOOK_FEATURE_DEVICE_AUTHS, None, NoLog, [authId |-> a, name |-> n], del)
          : a \in {None, VInt(7)}, n \in {None, VStr("Bob")}, del \in BOOLEAN } }

\* these bodies under the right signature
ScenarioDeliveries ==
  { [signature |-> _hmac_sha256_hex(SECRET, b), body |-> b] : b \in ScenarioBodies }

\* The reducer under the end-to-end scenarios; debug logging is on.
NextScenario ==
  \/ \E entry_id \in Paths : PostBegin(entry_id) /\ LogBegin(entry_id)
  \/ \E d \in ScenarioDeliveries : PostRead(d) /\ LogRead(d)
  \/ RefreshStart
  \/ \E locks \in LockLists : RefreshDone(locks)
  \/ RefreshFailed

SpecScenario == Init /\ [][NextScenario]_vars

\* the bodies of event sequences for one device: three log entries of device 1
\* (with a name, with an auth id only, with a trigger only), one of device 42,
\* and the upsert and the deletion of auth id 7
SequenceBodies ==
  { b \in RawBodies : json_loads(b) \in
      { Payload(WEBHOOK_FEATURE_DEVICE_LOGS, None, [l EXCEPT !.smartlockId = VInt(1)],
                NoAuth, FALSE)
          : l \in {ScenarioLog1, ScenarioLog2, [NoLog EXCEPT !.trigger = VInt(1)]} }
      \cup
      { Payload(WEBHOOK_FEATURE_DEVICE_LOGS, None,
                [ScenarioLog1 EXCEPT !.smartlockId = VInt(42)], NoAuth, FALSE) }
      \cup
      { Payload(WEBHOOK_FEATURE_DEVICE_AUTHS, None, NoLog,
                [authId |-> VInt(7), name |-> VStr("Bob")], del) : del \in BOOLEAN } }

SequenceDeliveries ==
  { [signature |-> _hmac_sha256_hex(SECRET, b), body |-> b] : b \in SequenceBodies }

\* The reducer under sequences of events; the debug log keeps the previous request.
NextSequence ==
  \/ \E entry_id \in Paths : PostBegin(entry_id) /\ LogBeginKeep(entry_id)
  \/ \E d \in SequenceDeliveries : PostRead(d) /\ LogRead(d)
  \/ RefreshStart
  \/ \E locks \in LockLists : RefreshDone(locks)
  \/ RefreshFailed

SpecSequence == Init /\ [][NextSequence]_vars

\* the bodies of the device id checks: the log entry of scenario 1 under every
\* shape of camel-case id and under the snake-case key
IdBodies ==
  { b \in RawBodies : json_loads(b) \in
      SnakeCasePayloads \cup
      { Payload(WEBHOOK_FEATURE_DEVICE_LOGS, ids[2], [l EXCEPT !.smartlockId = ids[1]],
                NoAuth, FALSE) : ids \in IdShapes, l \in ProbeLogs } }

IdDeliveries ==
  { [signature |-> _hmac_sha256_hex(SECRET, b), body |-> b] : b \in IdBodies }

\* The reducer under every shape of device id; debug logging is on.
NextIds ==
  \/ \E entry_id \in Paths : PostBegin(entry_id) /\ LogBegin(entry_id)
  \/ \E d \in IdDeliveries : PostRead(d) /\ LogRead(d)
  \/ RefreshStart
  \/ \E locks \in LockLists : RefreshDone(locks)
  \/ RefreshFailed

SpecIds == Init /\ [][NextIds]_vars

\* Home Assistant before the installation is set up for the first time: no
\* hass.data[DOMAIN], no webhook id or secret in the config entry, no webhook
\* of this installation at the vendor
InitLifecycle ==
  /\ data = FreshData(<<>>)
  /\ refresh_pc = "idle"
  /\ registry = EmptyMap
  /\ entry = [phase |-> "not_loaded", webhook_id |-> None, webhook_secret |-> None,
              log |-> "none"]
  /\ vendor = {}
  /\ refresh_raised = NoException
  /\ inflight = NoRequest
  /\ last = NoResponse
  /\ logged = NothingLogged
  /\ kept = NoSnapshot
  /\ flow = NoFlow
  /\ stored = ExistingEntry

\* `existing_webhook_id and existing_secret` is false: the set-up goes on to
\* register a webhook
\* (mutant: every set-up registers)
NeedsRegistrationMutAlways(e) == TRUE
NeedsRegistration(e) == ~(Truthy(e.webhook_id) /\ Truthy(e.webhook_secret))

\* what awaiting register_decentral_webhook may end in: an exception, a response
\* that is not a dict, a dict with id and secret, a dict with an id only
RegistrationResponses == {"raised", "non_dict", "dict", "dict_without_secret"}

\* async_setup_entry up to the first refresh: the view is registered.
\* entry.log is the line the set-up logs about the webhook: "existing",
\* "no_url", "raised", "non_dict" or "registered".
SetupBegin ==
  /\ entry.phase = "not_loaded"
  /\ registry' = ViewFlag @@ registry
  /\ entry' = [entry EXCEPT !.phase = "first_refresh", !.log = "none"]
  /\ UNCHANGED <<flow, stored, data, refresh_pc, inflight, last, logged, kept, refresh_raised, vendor>>

\* the first refresh succeeded: the registry entry is written with the stored
\* webhook id and secret; with both stored no webhook is registered and the
\* platforms are set up; so they are when get_url raises; else
\* register_decentral_webhook is awaited.
\* A request suspended in request.read() holds the coordinator of the entry it
\* looked up; the model follows one coordinator, so the new one takes over when
\* no request is suspended.
SetupRefreshed(locks, url_ok) ==
  /\ entry.phase = "first_refresh"
  /\ inflight = NoRequest
  /\ data' = FreshData(locks)
  /\ refresh_raised' = NoException
  /\ registry' = (DOMAIN_ENTRY :> RegistryEntry(entry.webhook_id, entry.webhook_secret))
                  @@ registry
  /\ entry' = IF ~NeedsRegistration(entry)
              THEN [entry EXCEPT !.phase = "loaded", !.log = "existing"]
              ELSE IF ~url_ok
              THEN [entry EXCEPT !.phase = "loaded", !.log = "no_url"]
              ELSE [entry EXCEPT !.phase = "registering"]
  /\ UNCHANGED <<flow, stored, refresh_pc, inflight, last, logged, kept, vendor>>

\* the first refresh failed: async_setup_entry raises, the entry is not set up
SetupRefreshFailed(err) ==
  /\ entry.phase = "first_refresh"
  /\ refresh_raised' = UpdateFailedFrom(err)
  /\ entry' = [entry EXCEPT !.phase = "not_loaded"]
  /\ UNCHANGED <<flow, stored, data, refresh_pc, registry, inflight, last, logged, kept, vendor>>

\* register_decentral_webhook returned or raised: the id and the secret of a
\* dict response are stored, each if present, in the config entry and in the
\* registry entry; an exception or another response is logged and nothing is
\* stored; the platforms are set up either way
RegisterDone(resp) ==
  /\ entry.phase = "registering"
  /\ LET registered == resp \in {"dict", "dict_without_secret"}
         webhook_id == IF registered THEN VInt(WEBHOOK_ID) ELSE entry.webhook_id
         secret == IF resp = "dict" THEN VStr(SECRET) ELSE entry.webhook_secret
     IN /\ vendor' = IF registered THEN vendor \cup {WEBHOOK_ID} ELSE vendor
        /\ entry' = [phase |-> "loaded", webhook_id |-> webhook_id, webhook_secret |-> secret,
                     log |-> IF registered THEN "registered" ELSE resp]
        /\ registry' = [registry EXCEPT ![DOMAIN_ENTRY] = RegistryEntry(webhook_id, secret)]
  /\ UNCHANGED <<flow, stored, data, refresh_pc, inflight, last, logged, kept, refresh_raised>>

\* data.get("webhook_id") or entry.data.get(CONF_WEBHOOK_ID) in async_unload_entry
UnloadWebhookId == PyOr(registry[DOMAIN_ENTRY].webhook_id, entry.webhook_id)

\* async_unload_entry up to its first await: delete_decentral_webhook when a
\* webhook id is known, else the platform unload
UnloadBegin ==
  /\ entry.phase = "loaded"
  /\ entry' = [entry EXCEPT !.phase =
                  IF Truthy(UnloadWebhookId) THEN "deleting" ELSE "unloading"]
  /\ UNCHANGED <<flow, stored, data, refresh_pc, registry, inflight, last, logged, kept,
                 refresh_raised, vendor>>

\* delete_decentral_webhook returned or raised (the exception is logged)
DeleteDone(ok) ==
  /\ entry.phase = "deleting"
  /\ vendor' = IF ok THEN vendor \ {IntOf(UnloadWebhookId)} ELSE vendor
  /\ entry' = [entry EXCEPT !.phase = "unloading"]
  /\ UNCHANGED <<flow, stored, data, refresh_pc, registry, inflight, last, logged, kept, refresh_raised>>

\* async_unload_platforms returned: the registry entry is popped if it succeeded
UnloadPlatforms(unload_ok) ==
  /\ entry.phase = "unloading"
  /\ IF unload_ok
     THEN /\ registry' = Pop(registry, DOMAIN_ENTRY)
          /\ entry' = [entry EXCEPT !.phase = "not_loaded"]
     ELSE /\ entry' = [entry EXCEPT !.phase = "failed_unload"]
          /\ UNCHANGED registry
  /\ UNCHANGED <<flow, stored, data, refresh_pc, inflight, last, logged, kept, refresh_raised, vendor>>

\* the deliveries sent across set-up and unload: a log entry of device 1
LifecycleDeliveries ==
  { [signature |-> _hmac_sha256_hex(SECRET, b), body |-> b] : b \in ProbeBodies }

\* Set-up and unload of the installation, with deliveries; debug logging is on.
NextLifecycle ==
  \/ SetupBegin
  \/ \E locks \in LockLists, url_ok \in BOOLEAN : SetupRefreshed(locks, url_ok)
  \/ \E err \in ApiErrors : SetupRefreshFailed(err)
  \/ \E resp \in RegistrationResponses : RegisterDone(resp)
  \/ UnloadBegin
  \/ \E ok \in BOOLEAN : DeleteDone(ok)
  \/ \E unload_ok \in BOOLEAN : UnloadPlatforms(unload_ok)
  \/ \E entry_id \in Paths : PostBegin(entry_id) /\ LogBegin(entry_id)
  \/ \E d \in LifecycleDeliveries : PostRead(d) /\ LogRead(d)

SpecLifecycle == InitLifecycle /\ [][NextLifecycle]_vars

\* (value or "").strip() for the values the form is given
Strip(v) == IF v \in {None, VStr(""), VStr(" ")} THEN VStr("")
            ELSE IF v = VStr(" cid ") THEN VStr("cid") ELSE v

\* the form was not submitted (user_input is None)
NoInput == [submitted |-> FALSE, client_id |-> None, client_secret |-> None]

\* what the user may submit
UserInputs ==
  { [submitted |-> TRUE, client_id |-> i, client_secret |-> x]
      : i \in {VStr(" "), VStr(" cid ")}, x \in {VStr(""), VStr("sec")} }

\* hass.config.external_url
ExternalUrls == {None, VStr("https://ha.example/")}

\* f"{external_url.rstrip('/')}/auth/external/callback"
RedirectUri(external_url) ==
  IF external_url = VStr("https://ha.example/")
  THEN VStr("https://ha.example/auth/external/callback")
  ELSE VStr(external_url.s \o "/auth/external/callback")

\* async_step_user: the form is shown, or the credentials are put in the
\* context and, with an external URL, the redirect URI too and the external
\* step begins
async_step_user(f, user_input, external_url) ==
  IF ~user_input.submitted
  THEN [f EXCEPT !.step = "user", !.result = "form"]
  ELSE LET held == [f EXCEPT !.client_id = Strip(user_input.client_id),
                             !.client_secret = Strip(user_input.client_secret)]
       IN IF ~Truthy(external_url)
          THEN [held EXCEPT !.step = "none", !.result = "abort_no_external_url"]
          ELSE [held EXCEPT !.oauth_redirect_uri = RedirectUri(external_url),
                            !.step = "authorize", !.result = "external"]

\* the query of the OAuth callback
Callbacks ==
  { [state |-> st, code |-> c, error |-> e]
      : st \in {None, VStr(FLOW_ID), VStr("flow-2")},
        c \in {None, VStr(""), VStr("c0de")},
        e \in {None, VStr("access_denied")} }

\* async_step_authorize up to the token request: the abort it returns, or
\* "exchange" when the request is sent
\* (mutant: the state of the callback is not compared with the flow id)
AuthorizeChecksMutNoStateCheck(f, cb) ==
  IF Truthy(cb.error) THEN "abort_oauth_error"
  ELSE IF ~Truthy(cb.code) THEN "abort_invalid_state"
  ELSE IF ~Truthy(f.client_id) \/ ~Truthy(f.client_secret) THEN "abort_missing_credentials"
  ELSE IF ~Truthy(f.oauth_redirect_uri) THEN "abort_no_external_url"
  ELSE "exchange"
AuthorizeChecks(f, cb) ==
  IF Truthy(cb.error) THEN "abort_oauth_error"
  ELSE IF cb.state # VStr(FLOW_ID) THEN "abort_invalid_state"
  ELSE IF ~Truthy(cb.code) THEN "abort_invalid_state"
  ELSE IF ~Truthy(f.client_id) \/ ~Truthy(f.client_secret) THEN "abort_missing_credentials"
  ELSE IF ~Truthy(f.oauth_redirect_uri) THEN "abort_no_external_url"
  ELSE "exchange"

\* what the token endpoint may answer: a status, a body that is JSON or not,
\* and the expires_in of a JSON body (None when it has none)
TokenResponses ==
  { [status |-> st, json |-> j, expires_in |-> e]
      : st \in {200, 400}, j \in BOOLEAN,
        e \in {None, VInt(30), VInt(3600), VStr("soon")} }

\* int(token.get("expires_in", 3600)) can be computed
ExpiresInOk(resp) == resp.expires_in = None \/ IntOk(resp.expires_in)

\* max(0, expires_in - 60), which is expires_at less the time of the exchange
ExpiresAfter(resp) ==
  LET expires_in == IF resp.expires_in = None THEN 3600 ELSE IntOf(resp.expires_in)
  IN IF expires_in - 60 > 0 THEN expires_in - 60 ELSE 0

\* the variables the config flow leaves alone
NonFlowVars == <<data, refresh_pc, registry, inflight, last, logged, kept,
                 refresh_raised, entry, vendor>>

\* Home Assistant with no flow in progress and the installation not set up,
\* with or without a config entry
InitFlow ==
  /\ data = FreshData(<<>>)
  /\ refresh_pc = "idle"
  /\ registry = EmptyMap
  /\ entry = [phase |-> "not_loaded", webhook_id |-> None, webhook_secret |-> None,
              log |-> "none"]
  /\ vendor = {}
  /\ refresh_raised = NoException
  /\ inflight = NoRequest
  /\ last = NoResponse
  /\ logged = NothingLogged
  /\ kept = NoSnapshot
  /\ flow = NoFlow
  /\ stored \in {NoEntry, ExistingEntry}

\* the user starts a flow: async_step_user(None)
FlowStartUser ==
  /\ flow.step = "none"
  /\ flow' = async_step_user(NoFlow, NoInput, None)
  /\ UNCHANGED <<stored, NonFlowVars>>

\* async_step_reauth for the existing entry: _reauth_entry_id is set and
\* async_step_user is called with what reauth was given
FlowStartReauth(user_input, external_url) ==
  /\ flow.step = "none"
  /\ stored.how # "none"
  /\ flow' = async_step_user([NoFlow EXCEPT !.reauth = TRUE], user_input, external_url)
  /\ UNCHANGED <<stored, NonFlowVars>>

\* the user submits the form: async_step_user(user_input)
FlowSubmit(user_input, external_url) ==
  /\ flow.step = "user"
  /\ flow' = async_step_user(flow, user_input, external_url)
  /\ UNCHANGED <<stored, NonFlowVars>>

\* the OAuth callback reaches async_step_authorize, which aborts or sends the
\* token request
FlowCallback(cb) ==
  /\ flow.step = "authorize"
  /\ LET outcome == AuthorizeChecks(flow, cb)
     IN flow' = IF outcome = "exchange"
                THEN [flow EXCEPT !.callback = cb, !.step = "exchange", !.sent = TRUE,
                                  !.status = 0, !.result = "none"]
                ELSE [flow EXCEPT !.callback = cb, !.step = "none", !.result = outcome]
  /\ UNCHANGED <<stored, NonFlowVars>>

\* the token endpoint answered: ConfigEntryAuthFailed for a status other than
\* 200, an exception of resp.json() or int() for a body that cannot be used
\* (the flow stays at its step), else the entry of a reauth is updated or a new
\* entry is created
FlowTokenResponse(resp) ==
  /\ flow.step = "exchange"
  /\ IF resp.status # 200 \/ ~resp.json \/ ~ExpiresInOk(resp)
     THEN /\ flow' = [flow EXCEPT !.step = "authorize", !.status = resp.status,
                                  !.result = "raised"]
          /\ UNCHANGED stored
     ELSE LET how == IF flow.reauth /\ stored.how # "none"
                     THEN "update_entry" ELSE "create_entry"
          IN /\ flow' = [flow EXCEPT !.step = "none", !.status = resp.status, !.result = how]
             /\ stored' = [how |-> how, client_id |-> flow.client_id.s,
                           client_secret |-> flow.client_secret.s,
                           token |-> Token(resp.expires_in, ExpiresAfter(resp))]
  /\ UNCHANGED NonFlowVars

\* the user removes the config entry
EntryRemoved ==
  /\ stored.how # "none"
  /\ stored' = NoEntry
  /\ UNCHANGED <<flow, NonFlowVars>>

\* The config flow, one flow at a time.
NextFlow ==
  \/ FlowStartUser
  \/ \E user_input \in UserInputs \cup {NoInput}, external_url \in ExternalUrls :
       FlowStartReauth(user_input, external_url)
  \/ \E user_input \in UserInputs \cup {NoInput}, external_url \in ExternalUrls :
       FlowSubmit(user_input, external_url)
  \/ \E cb \in Callbacks : FlowCallback(cb)
  \/ \E resp \in TokenResponses : FlowTokenResponse(resp)
  \/ EntryRemoved

SpecFlow == InitFlow /\ [][NextFlow]_vars

\* a listener reads coordinator.data, as the sensors do, and holds on to the object
ListenerReads ==
  /\ kept' = [held |-> TRUE, copy |-> data, now |-> data]
  /\ UNCHANGED <<flow, stored, data, refresh_pc, registry, inflight, last, logged,
                 refresh_raised, entry, vendor>>

\* the bodies sent while a listener holds the store: two log entries of device 1,
\* a log entry without a device id and a directory event
SnapshotBodies ==
  { b \in RawBodies : json_loads(b) \in
      { Payload(WEBHOOK_FEATURE_DEVICE_LOGS, None,
                [ScenarioLog1 EXCEPT !.smartlockId = VInt(1)], NoAuth, FALSE),
        Payload(WEBHOOK_FEATURE_DEVICE_LOGS, None,
                [NoLog EXCEPT !.smartlockId = VInt(1), !.action = VInt(1)], NoAuth, FALSE),
        Payload(WEBHOOK_FEATURE_DEVICE_LOGS, None, ScenarioLog1, NoAuth, FALSE),
        Payload(WEBHOOK_FEATURE_DEVICE_AUTHS, None, NoLog,
                [authId |-> VInt(7), name |-> VStr("Bob")], FALSE) } }

SnapshotDeliveries ==
  { [signature |-> _hmac_sha256_hex(SECRET, b), body |-> b] : b \in SnapshotBodies }

\* The reducer while a listener holds references to the store; debug logging is off.
NextSnapshot ==
  \/ \E entry_id \in Paths : PostBegin(entry_id) /\ UNCHANGED logged
  \/ \E d \in SnapshotDeliveries : PostRead(d) /\ UNCHANGED logged
  \/ ListenerReads
  \/ RefreshStart
  \/ \E locks \in LockLists : RefreshDone(locks)
  \/ RefreshFailed

SpecSnapshot == Init /\ [][NextSnapshot]_vars

(***************************************************************************)
(* Properties.                                                             *)
(***************************************************************************)
\* the per-device attribute maps and the counter map of a store
StoreMaps(d) == <<d.last_actor, d.last_auth_id, d.last_action, d.last_trigger,
                  d.last_source, d.last_device_type, d.last_completion_state,
                  d.last_date, d.event_counter>>

\* this step is the second half of post (body read to response)
PostReadStep == inflight # NoRequest /\ inflight' = NoRequest

\* this step is the end of a refresh
RefreshEndStep == refresh_pc = "listing" /\ refresh_pc' = "idle"

\* async_handle_webhook ran for the response r
Invoked(r) == r.how \in {"published", "refresh", "raised"}

\* C1: a payload that carries no device id int() accepts (none at all, or only
\* ids that are not numerals) leaves all eight per-device attribute maps and
\* the event_counter map as they were, and so does the refresh the handler
\* may have requested for it.
C1_NoIdLeavesStoreUnchanged ==
  [][ /\ (PostReadStep /\ Invoked(last') /\ ~last'.has_id)
           => StoreMaps(data') = StoreMaps(data)
      /\ RefreshEndStep => StoreMaps(data') = StoreMaps(data) ]_vars

\* a DEVICE_LOGS payload without a device id was dropped while the store held
\* attributes and a counter of an earlier event
C1_Witness ==
  /\ last.how = "refresh" /\ last.feature = WEBHOOK_FEATURE_DEVICE_LOGS /\ ~last.has_id
  /\ 1 \in DOMAIN data.last_action /\ CounterOf(data, 1) = 1

\* C2: async_handle_webhook never raises for a JSON-decoded payload (a JSON
\* object) whose device id is missing or not coercible to an integer.
C2_NoIdNeverRaises ==
  (Invoked(last) /\ logged.payload.json = "object" /\ ~last.has_id) => last.how # "raised"

\* the signature header is present and is, up to the case of its hex letters,
\* the digest of the raw body under the secret
SigMatches(signature, secret, body) ==
  signature # <<>> /\ Lower(signature) = Lower(_hmac_sha256_hex(secret, body))

\* C3: the reducer runs for a request only if a secret is stored for the
\* installation, the signature header is non-empty and it is the HMAC of the
\* raw body under that secret (compared as hex digests, letter case ignored,
\* as webhook.py:51 lower-cases both sides); every other request is rejected
\* and changes neither the store nor the refresh state (nothing is published).
C3_OnlyVerifiedReachReducer ==
  [][ /\ PostReadStep =>
           IF /\ Truthy(registry[inflight.entry_id].webhook_secret)
              /\ inflight.secret = registry[inflight.entry_id].webhook_secret.s
              /\ SigMatches(logged'.signature, inflight.secret, logged'.body)
           THEN TRUE
           ELSE last'.how = "rejected" /\ UNCHANGED <<data, refresh_pc>>
      /\ (inflight = NoRequest /\ refresh_pc' = refresh_pc) =>
           /\ ~Invoked(last') /\ UNCHANGED data
           /\ inflight' # NoRequest =>
                /\ logged'.entry_id \in DOMAIN registry
                /\ Truthy(registry[logged'.entry_id].webhook_secret) ]_vars

\* the reducer ran and published for a request signed with the upper-case digest
C3_Witness ==
  /\ last.how = "published" /\ last.status = 200
  /\ logged.signature = Upper(_hmac_sha256_hex(SECRET, logged.body))
  /\ logged.signature # _hmac_sha256_hex(SECRET, logged.body)

\* a response was sent for the logged request
Responded == last.how # "none"

\* the logged request passed the checks of the view: configured installation,
\* stored secret, matching signature, body that is JSON
Accepted ==
  /\ logged.entry_id = DOMAIN_ENTRY
  /\ Truthy(registry[DOMAIN_ENTRY].webhook_secret)
  /\ SigMatches(logged.signature, registry[DOMAIN_ENTRY].webhook_secret.s, logged.body)
  /\ json_loads(logged.body).json # "invalid"

\* C4: the status is 404 for a path that is no configured installation, else
\* 401 without a stored secret or with a missing or wrong signature, else 400
\* for a body that is no JSON, else 200; no other status is produced.
C4_StatusTable ==
  Responded =>
    last.status =
      IF logged.entry_id # DOMAIN_ENTRY THEN 404
      ELSE IF \/ ~Truthy(registry[DOMAIN_ENTRY].webhook_secret)
              \/ ~SigMatches(logged.signature, registry[DOMAIN_ENTRY].webhook_secret.s,
                             logged.body)
           THEN 401
      ELSE IF json_loads(logged.body).json = "invalid" THEN 400
      ELSE 200

\* C5: a delivery whose signature verifies and whose body is JSON is answered 200,
\* whatever the event in it.
C5_AcceptedIs200 ==
  (Responded /\ Accepted /\ json_loads(logged.body).json = "object") => last.status = 200

\* the devices a step may touch
Devices == {0, 1, 2}

\* C6: handling an event raises an event_counter if and only if the event
\* carried a coercible device id, whatever its feature.
C6_CounterIffAccepted ==
  [][ (PostReadStep /\ Invoked(last')) =>
        (last'.has_id <=> \E dv \in Devices :
                            CounterOf(data', dv) = CounterOf(data, dv) + 1) ]_vars

\* C7: every counter starts at 0, no step (webhook or refresh, in any
\* interleaving) lowers or resets one, and an applied DEVICE_LOGS event raises
\* the counter of its device by exactly 1 and no other.
C7_CounterMonotone ==
  /\ \A dv \in Devices : CounterOf(data, dv) = 0
  /\ [][ /\ \A dv \in Devices : CounterOf(data', dv) >= CounterOf(data, dv)
         /\ (PostReadStep /\ last'.feature = WEBHOOK_FEATURE_DEVICE_LOGS
               /\ last'.how = "published") =>
              \A dv \in Devices :
                CounterOf(data', dv) = CounterOf(data, dv) + (IF dv = last'.dev THEN 1 ELSE 0)
         /\ (PostReadStep /\ last'.feature # WEBHOOK_FEATURE_DEVICE_LOGS) =>
              data'.event_counter = data.event_counter ]_vars

\* a second DEVICE_LOGS event for device 1 was applied while a refresh was
\* suspended in list_smartlocks
C7_Witness ==
  /\ last.how = "published" /\ last.feature = WEBHOOK_FEATURE_DEVICE_LOGS /\ last.dev = 1
  /\ CounterOf(data, 1) = 2
  /\ refresh_pc = "listing"

\* the store attribute written from each optional field of a log entry
AttrOf == [action |-> "last_action", trigger |-> "last_trigger", source |-> "last_source",
           deviceType |-> "last_device_type", state |-> "last_completion_state",
           date |-> "last_date", authId |-> "last_auth_id"]

\* the enum table of each enum-coded field
TableOf == [action |-> ACTION_LABEL, trigger |-> TRIGGER_LABEL, source |-> SOURCE_LABEL,
            state |-> COMPLETION_STATE_LABEL]

\* a DEVICE_LOGS event was applied in this step
LogAppliedStep ==
  PostReadStep /\ last'.feature = WEBHOOK_FEATURE_DEVICE_LOGS /\ last'.how = "published"

\* C8: an applied DEVICE_LOGS event changes only the attributes of the fields
\* it carries; an attribute whose field is absent keeps the value it had.
C8_AbsentFieldsKeepValue ==
  [][ LogAppliedStep =>
        \A f \in DOMAIN AttrOf :
          (logged'.payload.smartlockLog[f] = None /\ last'.dev \in DOMAIN data[AttrOf[f]])
            => data'[AttrOf[f]][last'.dev] = data[AttrOf[f]][last'.dev] ]_vars

\* "unknown(<n>)"
UnknownMarker(n) == VStr("unknown(" \o IntStr(n) \o ")")

\* what the enum decoder may return for a table: a label of the table, the
\* marker of an unknown code, or the generic marker
DecoderOutput(table, v) ==
  /\ v.t = "str"
  /\ \/ v.s \in {table[k] : k \in DOMAIN table}
     \/ v.s \in {"unknown", "Unknown"}
     \/ \E n \in DOMAIN Numerals : v = UnknownMarker(n)

\* C9: every enum-coded label attribute of every device is unset (reads as
\* None) or an output of the enum decoder, never the raw vendor value.
C9_LabelsAreDecoderOutputs ==
  \A f \in DOMAIN TableOf :
    \A dv \in DOMAIN data[AttrOf[f]] :
      LET v == data[AttrOf[f]][dv]
      IN v = None \/ DecoderOutput(TableOf[f], v)

\* C10: a code that int() accepts and that the table lacks is decoded to
\* "unknown(<int>)", a raw value int() rejects to the generic marker.
C10_UnknownCodesGetMarker ==
  [][ LogAppliedStep =>
        \A f \in DOMAIN TableOf :
          LET raw == logged'.payload.smartlockLog[f]
              v == data'[AttrOf[f]][last'.dev]
          IN /\ (raw # None /\ IntOk(raw) /\ IntOf(raw) \notin DOMAIN TableOf[f])
                  => v = UnknownMarker(IntOf(raw))
             /\ (raw # None /\ ~IntOk(raw)) => v \in {VStr("unknown"), VStr("Unknown")} ]_vars

\* the payload of end-to-end scenario 1
Scenario1Payload ==
  Payload(WEBHOOK_FEATURE_DEVICE_LOGS, None, [ScenarioLog1 EXCEPT !.smartlockId = VInt(42)],
          NoAuth, FALSE)

\* the store holds nothing but the lock list
EmptyStore(d) == d = FreshData(d.locks)

\* C11: from an empty store, the DEVICE_LOGS event of scenario 1 (smartlockId 42,
\* action 1, trigger 6, authId "7", name "Alice") leaves device 42 with
\* last_actor "Alice", last_action "unlock", last_trigger "keypad" and
\* event_counter 1.
C11_Scenario1 ==
  [][ (PostReadStep /\ EmptyStore(data) /\ logged'.payload = Scenario1Payload) =>
        /\ last'.how = "published"
        /\ data'.last_actor[42] = VStr("Alice")
        /\ data'.last_action[42] = VStr("unlock")
        /\ data'.last_trigger[42] = VStr("keypad")
        /\ CounterOf(data', 42) = 1 ]_vars

\* the log entry of the payload handled in this step
AppliedLog == logged'.payload.smartlockLog

\* C12: an applied DEVICE_LOGS event with an authId and no name sets last_actor
\* to the directory's name for that authId, or to the authId as a string when
\* the directory has no entry for it, whatever the other fields are.
C12_ActorFromAuthId ==
  [][ (LogAppliedStep /\ AppliedLog.authId # None /\ ~Truthy(AppliedLog.name)) =>
        data'.last_actor[last'.dev] =
          IF PyStr(AppliedLog.authId) \in DOMAIN data.auth_map
          THEN VStr(data.auth_map[PyStr(AppliedLog.authId)])
          ELSE VStr(PyStr(AppliedLog.authId)) ]_vars

\* C13: last_actor of an applied DEVICE_LOGS event is the event's name when it
\* has one (whatever the directory says), else the fallback for its auth id
\* (the directory's name or the id as a string), else the literal "unknown"
\* (in either case of its first letter) when it has neither.
C13_ActorPriority ==
  [][ LogAppliedStep =>
        LET actor == data'.last_actor[last'.dev]
        IN IF Truthy(AppliedLog.name) THEN actor = VStr(PyStr(AppliedLog.name))
           ELSE IF AppliedLog.authId # None
           THEN \/ actor = VStr(PyStr(AppliedLog.authId))
                \/ /\ PyStr(AppliedLog.authId) \in DOMAIN data.auth_map
                   /\ actor = VStr(data.auth_map[PyStr(AppliedLog.authId)])
           ELSE actor \in {VStr("unknown"), VStr("Unknown")} ]_vars

\* C14: once a DEVICE_AUTHS deletion of auth id A has been handled, a
\* DEVICE_LOGS event for a device that references A without a name does not
\* raise and sets last_actor to A as a string.
C14_DeletedAuthFallsBackToId ==
  [][ ( /\ PostReadStep /\ logged'.payload.json = "object"
        /\ last'.feature = WEBHOOK_FEATURE_DEVICE_LOGS /\ last'.has_id
        /\ AppliedLog.authId # None /\ ~Truthy(AppliedLog.name)
        /\ PyStr(AppliedLog.authId) \in logged.deleted_auths ) =>
        /\ last'.how = "published"
        /\ data'.last_actor[last'.dev] = VStr(PyStr(AppliedLog.authId)) ]_vars

\* the smartlockAuth object of the payload handled in this step
AppliedAuth == logged'.payload.smartlockAuth

\* a DEVICE_AUTHS event that names an auth id was handled in this step
AuthAppliedStep ==
  /\ PostReadStep /\ logged'.payload.json = "object"
  /\ last'.feature = WEBHOOK_FEATURE_DEVICE_AUTHS
  /\ AppliedAuth.authId # None

\* C15: a DEVICE_AUTHS event naming auth id A leaves A without an entry when the
\* deletion flag is set, maps A to the event's name when the flag is not set
\* and a name is present, and leaves the directory as it was when neither is
\* the case; the entries of all other auth ids stay as they were.
C15_DirectoryUpdate ==
  [][ AuthAppliedStep =>
        LET A == PyStr(AppliedAuth.authId)
            before == data.auth_map
            after == data'.auth_map
        IN /\ logged'.payload.deleted => A \notin DOMAIN after
           /\ (~logged'.payload.deleted /\ Truthy(AppliedAuth.name)) =>
                 A \in DOMAIN after /\ after[A] = PyStr(AppliedAuth.name)
           /\ (~logged'.payload.deleted /\ ~Truthy(AppliedAuth.name)) => after = before
           /\ (DOMAIN after) \ {A} = (DOMAIN before) \ {A}
           /\ \A B \in (DOMAIN before) \ {A} : after[B] = before[B] ]_vars

\* a deletion removed the entry of auth id 7 while auth id 8 kept its own
C15_Witness ==
  /\ last.feature = WEBHOOK_FEATURE_DEVICE_AUTHS /\ last.how = "published"
  /\ logged.payload.json = "object" /\ logged.payload.deleted
  /\ "7" \in logged.deleted_auths
  /\ DOMAIN data.auth_map = {"8"} /\ data.auth_map["8"] = "Carol"

\* the eight per-device attribute maps of a store
AttributeMaps(d) == <<d.last_actor, d.last_auth_id, d.last_action, d.last_trigger,
                      d.last_source, d.last_device_type, d.last_completion_state,
                      d.last_date>>

\* how many lock events a call fired
LockEvents(fired) == Cardinality({i \in DOMAIN fired : fired[i] = EVENT_NUKI_LOCK_EVENT})

\* C16: handling a DEVICE_AUTHS event leaves every per-device attribute of every
\* device as it was and fires exactly one lock event.
C16_AuthsLeaveAttributes ==
  [][ (PostReadStep /\ Invoked(last') /\ last'.feature = WEBHOOK_FEATURE_DEVICE_AUTHS) =>
        /\ AttributeMaps(data') = AttributeMaps(data)
        /\ LockEvents(last'.fired) = 1 ]_vars

\* a DEVICE_AUTHS event changed the directory while devices 1 and 42 held attributes
C16_Witness ==
  /\ last.feature = WEBHOOK_FEATURE_DEVICE_AUTHS /\ last.how = "published"
  /\ LockEvents(last.fired) = 1
  /\ DOMAIN data.last_actor = {1, 42}
  /\ "7" \in DOMAIN data.auth_map /\ data.last_actor[1] # VStr("Bob")

\* the device id of a payload that carries one int() accepts: the nested id
\* when it is one, else the top-level id
CoercibleIdOf(payload) ==
  LET nested == payload.smartlockLog.smartlockId
  IN IF nested.t # "none" /\ IntOk(nested) THEN IntOf(nested) ELSE IntOf(payload.smartlockId)

\* an event of the given kind that carries a coercible device id was handled in
\* this step
HandledWithId(features) ==
  /\ PostReadStep /\ Invoked(last') /\ logged'.payload.json = "object"
  /\ last'.feature \in features /\ last'.has_id

\* C17: an accepted DEVICE_STATUS event for device d stores the event's content
\* as last_device_status of d and raises d's event_counter by one.
C17_StatusStoredAndCounted ==
  [][ HandledWithId({WEBHOOK_FEATURE_DEVICE_STATUS}) =>
        LET d == CoercibleIdOf(logged'.payload)
        IN /\ CounterOf(data', d) = CounterOf(data, d) + 1
           /\ "last_device_status" \in DOMAIN data'
           /\ d \in DOMAIN data'.last_device_status ]_vars

\* the feature values tried that the handler has no branch for
UnrecognizedFeatures == {"DEVICE_CONFIG", ""}

\* C18: a payload with an unrecognized feature and a coercible device id d
\* raises d's event_counter by one and changes no attribute of any device.
C18_UnrecognizedFeatureCounted ==
  [][ HandledWithId(UnrecognizedFeatures) =>
        LET d == CoercibleIdOf(logged'.payload)
        IN /\ CounterOf(data', d) = CounterOf(data, d) + 1
           /\ AttributeMaps(data') = AttributeMaps(data) ]_vars

\* C19: a webhook the endpoint answers with 200 has been published to the
\* listeners by one call of async_set_updated_data before the response.
C19_PublishedOncePerAccepted ==
  (Responded /\ last.status = 200) => last.how = "published"

\* a device has either none or all of its attributes and its counter
RecordConsistent(d) ==
  \A m \in {"last_actor", "last_auth_id", "last_action", "last_trigger", "last_source",
             "last_device_type", "last_completion_state", "last_date"} :
    DOMAIN d[m] = DOMAIN d.event_counter

\* C20: wherever a listener can read the store, every device's record is whole
\* (no attribute of an event without the others), and an object a listener
\* received keeps the content it had when it was received.
C20_SnapshotsAreStable ==
  /\ RecordConsistent(data)
  /\ kept.held => RecordConsistent(kept.now) /\ kept.now = kept.copy

\* the payload of a log entry of the event sequences for a device
SequenceLog(log, dev) ==
  Payload(WEBHOOK_FEATURE_DEVICE_LOGS, None, [log EXCEPT !.smartlockId = VInt(dev)],
          NoAuth, FALSE)

\* C21: DEVICE_LOGS events are applied one by one in arrival order and the last
\* one wins: each applied event leaves its device with the attributes derived
\* from that event alone (action 1 "unlock"; trigger 6 "Auto lock", trigger 1
\* "Manual"; the auth id as a string; the actor from the name, else the
\* directory, else the trigger; absent fields unset) and raises its counter by
\* one, leaving all other devices as they were; no other step changes an
\* attribute or a counter.
C21_LastProcessedWins ==
  [][ IF LogAppliedStep
      THEN LET dev == last'.dev
               log == AppliedLog
               triggerLabel == IF log.trigger = VInt(6) THEN VStr("Auto lock")
                               ELSE IF log.trigger = VInt(1) THEN VStr("Manual")
                               ELSE None
           IN /\ data'.last_action[dev] = IF log.action = VInt(1) THEN VStr("unlock") ELSE None
              /\ data'.last_trigger[dev] = triggerLabel
              /\ data'.last_auth_id[dev] = IF log.authId = None THEN None ELSE VStr("7")
              /\ data'.last_actor[dev] =
                   IF log.name # None THEN log.name
                   ELSE IF log.authId # None /\ "7" \in DOMAIN data.auth_map
                   THEN VStr(data.auth_map["7"])
                   ELSE triggerLabel
              /\ data'.last_date[dev] = None /\ data'.last_device_type[dev] = None
              /\ data'.last_source[dev] = None /\ data'.last_completion_state[dev] = None
              /\ data'.event_counter[dev] = CounterOf(data, dev) + 1
              /\ \A i \in 1..8 :
                   /\ DOMAIN AttributeMaps(data')[i] = (DOMAIN AttributeMaps(data)[i]) \cup {dev}
                   /\ \A o \in (DOMAIN AttributeMaps(data)[i]) \ {dev} :
                        AttributeMaps(data')[i][o] = AttributeMaps(data)[i][o]
              /\ \A o \in (DOMAIN data.event_counter) \ {dev} :
                   data'.event_counter[o] = data.event_counter[o]
      ELSE /\ AttributeMaps(data') = AttributeMaps(data)
           /\ data'.event_counter = data.event_counter ]_vars

\* the second event of device 1, a manual trigger, replaced what the first one,
\* Alice's unlock, had left, while device 42 kept its own attributes
C21_Witness ==
  /\ last.how = "published" /\ last.dev = 1
  /\ logged.prev = SequenceLog(ScenarioLog1, 1)
  /\ logged.payload = SequenceLog([NoLog EXCEPT !.trigger = VInt(1)], 1)
  /\ CounterOf(data, 1) = 2
  /\ data.last_actor[1] = VStr("Manual") /\ data.last_action[1] = None
  /\ 42 \in DOMAIN data.last_actor /\ data.last_actor[42] = VStr("Alice")

\* C26: replaying the DEVICE_LOGS event that was applied just before leaves
\* every attribute of the device as the first application left it and raises
\* event_counter by one again.
C26_ReplayKeepsLabels ==
  [][ (LogAppliedStep /\ logged'.prev = logged'.payload) =>
        /\ AttributeMaps(data') = AttributeMaps(data)
        /\ data'.event_counter[last'.dev] = data.event_counter[last'.dev] + 1 ]_vars

\* an event of device 1 was applied twice in a row
C26_Witness ==
  /\ last.how = "published" /\ last.feature = WEBHOOK_FEATURE_DEVICE_LOGS /\ last.dev = 1
  /\ logged.prev = logged.payload
  /\ CounterOf(data, 1) = 2

\* C22: the end of a refresh, successful or failed, leaves every per-device
\* attribute, every event counter and the auth directory as they were (so no
\* attribute that was set is unset by it), and the only failures a refresh
\* reports are those of listing the locks: the failed listing of the
\* authorizations does not fail it.
C22_RefreshKeepsDeviceState ==
  [][ RefreshEndStep =>
        /\ AttributeMaps(data') = AttributeMaps(data)
        /\ data'.event_counter = data.event_counter
        /\ data'.auth_map = data.auth_map
        /\ \/ refresh_raised' = NoException
           \/ /\ refresh_raised'.type = "UpdateFailed" /\ refresh_raised'.cause \in ApiErrors
              /\ data' = data ]_vars

\* a refresh that listed the locks has ended after an event of device 1 was
\* applied during it; the directory and the device's attributes are in place
C22_Witness ==
  /\ last.in_refresh /\ last.how = "published" /\ last.dev = 1
  /\ refresh_pc = "idle" /\ refresh_raised = NoException
  /\ "7" \in DOMAIN data.auth_map
  /\ data.last_actor[1] = VStr("Bob") /\ CounterOf(data, 1) = 1

\* C23: when the API call of a refresh fails authentication, what the refresh
\* raises to the host is ConfigEntryAuthFailed itself, and the refresh ends
\* without calling again.
C23_AuthFailureReachesHost ==
  [][ (RefreshEndStep /\ refresh_raised'.cause = "ConfigEntryAuthFailed") =>
        /\ refresh_raised'.type = "ConfigEntryAuthFailed"
        /\ refresh_pc' = "idle" ]_vars

\* a DEVICE_LOGS payload (a JSON object with a log entry) was handled in this step
LogHandledStep ==
  /\ PostReadStep /\ logged'.payload.json = "object"
  /\ logged'.payload.feature = WEBHOOK_FEATURE_DEVICE_LOGS
  /\ logged'.payload.smartlockLog.obj

\* C24: a DEVICE_LOGS event that carries its device id under the snake-case key
\* only is applied to that device, with the result the same event has under the
\* camel-case key.
C24_SnakeCaseIdAccepted ==
  [][ LET SnakeId(payload) == PyOr(payload.smartlockLog.smartlock_id, payload.smartlock_id)
          AsCamelCase(payload) ==
            [payload EXCEPT !.smartlockLog.smartlockId = SnakeId(payload),
                            !.smartlockLog.smartlock_id = None, !.smartlock_id = None]
      IN
      ( /\ LogHandledStep
        /\ logged'.payload.smartlockLog.smartlockId = None
        /\ logged'.payload.smartlockId = None
        /\ SnakeId(logged'.payload).t = "int" ) =>
        /\ last'.how = "published"
        /\ last'.dev = SnakeId(logged'.payload).i
        /\ data' = Handle(data, AsCamelCase(logged'.payload)).data ]_vars

\* C27: a DEVICE_LOGS event whose log entry carries an integer smartlockId
\* (0 included) is applied to that device whatever the top-level smartlockId
\* is; the top-level id is used when the log entry carries none.
C27_NestedIdWins ==
  [][ LogHandledStep =>
        LET nested == logged'.payload.smartlockLog.smartlockId
            top == logged'.payload.smartlockId
        IN /\ nested.t = "int" => (last'.how = "published" /\ last'.dev = nested.i)
           /\ (nested = None /\ top.t = "int") =>
                (last'.how = "published" /\ last'.dev = top.i) ]_vars

\* C25: the verifier lets the digest of the raw body under the stored secret
\* pass in lower case and in upper case, answers 401 to every signature that
\* differs from the digest in one character (letter case ignored), whatever
\* that character is, and answers 401 to an empty signature header.
C25_SingleCharacterMutationsRejected ==
  [][ PostReadStep =>
        LET expected == _hmac_sha256_hex(inflight.secret, logged'.body)
            signature == logged'.signature
            rejected401 == last'.how = "rejected" /\ last'.status = 401
            DiffersAt(sg, ex) == { i \in DOMAIN ex : Lower(sg)[i] # Lower(ex)[i] }
        IN /\ signature \in {expected, Upper(expected)} =>
                (Invoked(last') \/ last'.status = 400)
           /\ signature = <<>> => rejected401
           /\ ( /\ Len(signature) = Len(expected)
                /\ Cardinality(DiffersAt(signature, expected)) = 1 ) => rejected401 ]_vars

\* C28: once the refresh during which a DEVICE_LOGS or DEVICE_AUTHS event was
\* handled has ended, the store still shows the event: the attributes its log
\* entry gives its device (action 1 "unlock", its trigger's label, its auth id,
\* its actor), the counter the handler raised, and the directory entry it set
\* or removed.
C28_NoLostUpdate ==
  (last.in_refresh /\ last.how = "published" /\ refresh_pc = "idle") =>
    /\ last.feature = WEBHOOK_FEATURE_DEVICE_LOGS =>
         LET log == logged.payload.smartlockLog
             dev == last.dev
         IN /\ dev \in DOMAIN data.event_counter /\ data.event_counter[dev] = last.counter
            /\ last.counter >= 1
            /\ \A i \in 1..8 : dev \in DOMAIN AttributeMaps(data)[i]
            /\ data.last_action[dev] = IF log.action = VInt(1) THEN VStr("unlock") ELSE None
            /\ data.last_trigger[dev] =
                 IF log.trigger = VInt(6) THEN VStr("Auto lock")
                 ELSE IF log.trigger = VInt(1) THEN VStr("Manual") ELSE None
            /\ data.last_auth_id[dev] = IF log.authId = None THEN None ELSE VStr("7")
            /\ log.name # None => data.last_actor[dev] = log.name
            /\ (log.name = None /\ log.authId # None /\ "7" \in DOMAIN data.auth_map) =>
                 data.last_actor[dev] = VStr(data.auth_map["7"])
    /\ last.feature = WEBHOOK_FEATURE_DEVICE_AUTHS =>
         IF logged.payload.deleted THEN "7" \notin DOMAIN data.auth_map
         ELSE "7" \in DOMAIN data.auth_map /\ data.auth_map["7"] = "Bob"

\* the second event of device 1 was applied during a refresh that has since
\* published a new lock list
C28_Witness ==
  /\ last.in_refresh /\ last.how = "published" /\ refresh_pc = "idle"
  /\ refresh_raised = NoException
  /\ last.feature = WEBHOOK_FEATURE_DEVICE_LOGS /\ last.dev = 1 /\ last.counter = 2
  /\ logged.payload = SequenceLog(ScenarioLog2, 1)
  /\ data.locks = <<1, 2>>
  /\ data.last_actor[1] = VStr("Bob")

\* C29: whenever the installation is set up and its config entry holds a
\* webhook id and a secret, the webhook with that id is registered at the vendor.
C29_StoredWebhookIsRegistered ==
  ( /\ entry.phase = "loaded"
    /\ Truthy(entry.webhook_id) /\ Truthy(entry.webhook_secret) ) =>
    IntOf(entry.webhook_id) \in vendor

\* C30: the reducer runs for a delivery only while the registry entry of its
\* installation exists; the entry exists exactly from the end of the first
\* refresh of set-up to the successful platform unload; a delivery that finds
\* no entry is answered 404 and changes nothing; the entry is removed by the
\* successful platform unload and by nothing else.
C30_DispatchOnlyInsideWindow ==
  [][ /\ (PostReadStep /\ Invoked(last')) => inflight.entry_id \in DOMAIN registry
      /\ (DOMAIN_ENTRY \in DOMAIN registry) <=>
           (entry.phase \in {"registering", "loaded", "deleting", "unloading", "failed_unload"})
      /\ (inflight = NoRequest /\ logged' # logged /\ logged'.entry_id \notin DOMAIN registry) =>
           /\ last'.how = "rejected" /\ last'.status = 404
           /\ UNCHANGED <<data, refresh_pc, registry, inflight, entry, vendor>>
      /\ (DOMAIN_ENTRY \in DOMAIN registry /\ DOMAIN_ENTRY \notin DOMAIN registry') =>
           (entry.phase = "unloading" /\ entry'.phase = "not_loaded")
      /\ (entry.phase = "unloading" /\ entry'.phase # "unloading") =>
           ((DOMAIN_ENTRY \notin DOMAIN registry') <=> (entry'.phase = "not_loaded")) ]_vars

\* C31: handling a DEVICE_LOGS event for a device leaves every attribute and
\* the event counter of every other device as they were: no other device gains,
\* loses or changes a value, however the events of the devices interleave.
C31_OtherDevicesUntouched ==
  [][ (PostReadStep /\ last'.feature = WEBHOOK_FEATURE_DEVICE_LOGS) =>
        LET OtherDevices(m, dev) == (DOMAIN m) \ {dev} IN
        \A i \in 1..9 :
          /\ OtherDevices(StoreMaps(data')[i], last'.dev) =
               OtherDevices(StoreMaps(data)[i], last'.dev)
          /\ \A o \in OtherDevices(StoreMaps(data)[i], last'.dev) :
               StoreMaps(data')[i][o] = StoreMaps(data)[i][o] ]_vars

\* device 1 took its second event, one without a name, after device 42 had
\* taken Alice's: device 42 still shows Alice and its own counter
C31_Witness ==
  /\ last.how = "published" /\ last.feature = WEBHOOK_FEATURE_DEVICE_LOGS /\ last.dev = 1
  /\ logged.payload.smartlockLog.name = None
  /\ CounterOf(data, 1) = 2 /\ CounterOf(data, 42) = 1
  /\ data.last_actor[42] = VStr("Alice") /\ data.last_actor[1] # VStr("Alice")

\* C32: webhook registration is best-effort: when the external URL cannot be
\* computed, the registration call raises or its response is not an object, the
\* set-up still ends with the platforms set up and the stored webhook id and
\* secret as they were; every registration call ends with the platforms set
\* up; and a registration call is made only when the entry lacks a stored
\* webhook id or secret.
C32_RegistrationIsBestEffort ==
  [][ /\ (entry.phase = "first_refresh" /\ entry'.phase = "registering") =>
           (~Truthy(entry.webhook_id) \/ ~Truthy(entry.webhook_secret))
      /\ (entry.phase = "registering" /\ entry' # entry) => entry'.phase = "loaded"
      /\ ( /\ entry.phase \in {"first_refresh", "registering"}
           /\ entry'.log \in {"no_url", "raised", "non_dict"} ) =>
           /\ entry'.phase = "loaded"
           /\ entry'.webhook_id = entry.webhook_id
           /\ entry'.webhook_secret = entry.webhook_secret
           /\ vendor' = vendor
      /\ vendor' \ vendor # {} => entry.phase = "registering" ]_vars

\* a set-up that found an id without a secret called the registration, got a
\* response that is not an object, and is set up with the id it had
C32_Witness ==
  /\ entry.phase = "loaded" /\ entry.log = "non_dict"
  /\ entry.webhook_id = VInt(WEBHOOK_ID) /\ entry.webhook_secret = None

====
